---- MODULE Spec2Model ----
(***************************************************************************)
(* HelioBio-Social dashboard client: the reconnecting push client          *)
(* (frontend/src/hooks/useWebSocket.ts) and the dashboard controller       *)
(* (Dashboard component: series, time window, alert list).                 *)
(*                                                                         *)
(* The module holds these specifications over one set of variables:        *)
(*   SpecWS     the push client alone                                      *)
(*   SpecBuf    the controller's series and time window                    *)
(*   SpecAlert  the controller's alert list                                *)
(*   SpecAck    acknowledgement of alerts                                  *)
(*   SpecMetrics  the aggregate metrics                                    *)
(*   SpecStrength, SpecChart  the chart projections of a render            *)
(* Each specification leaves the other parts at their initial value.       *)
(***************************************************************************)
EXTENDS Integers, Sequences, FiniteSets, TLC

(***************************************************************************)
(* Bounds of the model (not program constants).                            *)
(***************************************************************************)
MaxSockets == 7        \* WebSocket objects created in one behaviour
MaxExplicit == 1       \* explicit reconnect() calls and effect re-runs
MaxInputs == 3         \* sample pushes, poll ticks and user selections
MaxPushes == 25        \* alert push messages
MaxResends == 1        \* alert pushes that repeat an id already sent
MaxSamples == 3        \* correlation samples in a charted bulk answer
MaxExports == 2       \* files exported
MaxTicks == 32        \* interval callbacks of the simulated dashboard
MaxChartLen == 101     \* solar or mental-health samples in a charted bulk answer

(***************************************************************************)
(* Program constants.                                                      *)
(***************************************************************************)
reconnectAttempts == 5
AlertCap == 20
DaysPerYear == 365     \* subMonths(now, 12), in days
Now0 == 1000           \* the clock (in days) when the dashboard is created
ChartRows == 50        \* slice(-50) of getCombinedChartData
ScatterPoints == 100   \* slice(-100) of getScatterData
SeriesCap == 30        \* if (newData.length > 30) of updateTimeSeries

VARIABLES
  \* ---- push client (useWebSocket) ----
  urlValid,        \* whether new WebSocket(url) succeeds or throws
  mounted,         \* "init" before the effect ran, "yes", "no" after cleanup
  sockets,         \* every WebSocket created so far, in creation order
  wsRef,           \* wsRef.current: index into sockets, 0 for null
  reconnectCount,  \* reconnectCountRef.current
  connected,       \* the connected state of the hook
  timers,          \* pending setTimeout(connect) callbacks
  explicitCalls,   \* reconnect() calls and effect re-runs made so far
  afterDisconnect, \* history: disconnect() ran and no explicit connect since
  clean,           \* history: no socket opened, no reconnect() or effect re-run
  last,            \* history: the last handler that ran and what it did
  lastMessage      \* the lastMessage state: the latest MessageEvent, with the
                   \* number of events received so far as its identity

wsVars == <<urlValid, mounted, sockets, wsRef, reconnectCount, connected,
            timers, explicitCalls, afterDisconnect, clean, last, lastMessage>>

VARIABLES
  \* ---- dashboard controller (Dashboard) ----
  dashMounted,      \* whether the component's effects have run
  now,              \* wall clock, in days
  timeRange,        \* "24h", "7d", "30d" or "1y"
  autoRefresh,
  solarData,        \* sequences of samples
  mentalHealthData,
  correlationData,
  activeAlerts,     \* sequence of alerts, newest first
  metrics,
  isLoading,
  pollTimer,        \* the active setIntervals of the effect: what each captured
  bulks,            \* fetchDashboardData calls in flight: what each captured
  polls,            \* fetchLatestData calls in flight: what each captured
  inputs,           \* sample pushes, poll ticks and user selections so far
  pushCount,        \* history: alert pushes since the list was last replaced
  resends,          \* history: alert pushes that repeated an id
  dlast,            \* history: the last controller handler and what it appended
  acks,             \* acknowledgeAlert calls in flight: the alert id of each
  lastRecompute,    \* history: the last metrics recomputation and how it
                    \* compares with the one before it
  view,             \* what the chart projections returned at the last render
  tornDown,         \* whether the component was unmounted
  selectedRegion,
  download,         \* the files exportData handed to the browser, in order
  processed         \* the lastMessage the dispatching effect last ran for

dashVars == <<dashMounted, now, timeRange, autoRefresh, solarData,
              mentalHealthData, correlationData, activeAlerts, metrics,
              isLoading, pollTimer, bulks, polls, inputs, pushCount,
              resends, dlast, acks, lastRecompute, view, tornDown,
              selectedRegion, download, processed>>

VARIABLES
  \* ---- simulated dashboard (HelioBioScientificDashboard) ----
  simMounted,         \* "init", "yes" while the 2 s interval runs, "no" after
  solarMetrics,
  socialMetrics,
  simCorrelationData, \* the correlationData state of that component
  timeSeriesData,
  ticks               \* interval callbacks run so far

simVars == <<simMounted, solarMetrics, socialMetrics, simCorrelationData,
             timeSeriesData, ticks>>

vars == <<wsVars, dashVars, simVars>>

(***************************************************************************)
(* Helpers.                                                                *)
(***************************************************************************)
Min(a, b) == IF a < b THEN a ELSE b

SocketIds == 1..Len(sockets)

Alive(s) == sockets[s].state \in {"CONNECTING", "OPEN"}

AliveSockets == {s \in SocketIds : Alive(s)}

\* last.ev names the handler that made the last step, last.cb the callback it
\* invoked, and last.ret what it did: for "send" the value returned, for
\* "close" whether a reconnect was scheduled, for "open" whether the retry
\* counter was above 0 before the reset.
NoEvent == [ev |-> "none", ret |-> FALSE, cb |-> "none"]

Event(e, r, cb) == [ev |-> e, ret |-> r, cb |-> cb]

\* a closed socket keeps no history
ClosedSocket == [state |-> "CLOSED", origin |-> "none", opened |-> FALSE]

(***************************************************************************)
(* connect(): new WebSocket(url), wsRef.current = ws.  A throwing          *)
(* constructor is caught and changes nothing.  The previous socket is      *)
(* neither closed nor detached.                                            *)
(***************************************************************************)
NewSocket(origin) ==
  [state |-> "CONNECTING", origin |-> origin, opened |-> FALSE]

connect(socks, origin) ==
  IF urlValid
    THEN /\ sockets' = Append(socks, NewSocket(origin))
         /\ wsRef' = Len(socks) + 1
    ELSE /\ sockets' = socks
         /\ wsRef' = wsRef

(***************************************************************************)
(* ws.close(): a connecting or open socket starts closing; its close event *)
(* is delivered later.  Closing or closed sockets are left alone.          *)
(***************************************************************************)
CloseCall(socks, s) ==
  IF s # 0 /\ socks[s].state \in {"CONNECTING", "OPEN"}
    THEN [socks EXCEPT ![s].state = "CLOSING"]
    ELSE socks

(***************************************************************************)
(* useEffect(() => { connect(); return () => disconnect(); })              *)
(***************************************************************************)
Mount ==
  /\ mounted = "init"
  /\ mounted' = "yes"
  /\ connect(sockets, "mount")
  /\ last' = Event("mount", FALSE, "none")
  /\ UNCHANGED <<lastMessage, dashVars, simVars>>
  /\ afterDisconnect' = FALSE
  /\ UNCHANGED <<urlValid, connected, timers, explicitCalls, clean, reconnectCount>>

Unmount ==
  /\ mounted = "yes"
  /\ mounted' = "no"
  /\ sockets' = CloseCall(sockets, wsRef)
  /\ wsRef' = 0
  /\ connected' = FALSE
  /\ afterDisconnect' = TRUE
  /\ last' = Event("unmount", FALSE, "none")
  /\ UNCHANGED <<lastMessage, dashVars, simVars>>
  /\ UNCHANGED <<urlValid, reconnectCount, timers, explicitCalls, clean>>

\* the effect's dependencies changed: cleanup, then the effect again
EffectRerun ==
  /\ mounted = "yes"
  /\ explicitCalls < MaxExplicit
  /\ Len(sockets) < MaxSockets
  /\ explicitCalls' = explicitCalls + 1
  /\ connect(CloseCall(sockets, wsRef), "effect")
  /\ connected' = FALSE
  /\ afterDisconnect' = FALSE
  /\ last' = Event("rerun", FALSE, "none")
  /\ UNCHANGED <<lastMessage, dashVars, simVars>>
  /\ clean' = FALSE
  /\ UNCHANGED <<urlValid, mounted, timers, reconnectCount>>

(***************************************************************************)
(* The returned API: reconnect (= connect), disconnect, sendMessage.       *)
(***************************************************************************)
Reconnect ==
  /\ mounted = "yes"
  /\ explicitCalls < MaxExplicit
  /\ Len(sockets) < MaxSockets
  /\ explicitCalls' = explicitCalls + 1
  /\ connect(sockets, "explicit")
  /\ afterDisconnect' = FALSE
  /\ last' = Event("reconnect", FALSE, "none")
  /\ UNCHANGED <<lastMessage, dashVars, simVars>>
  /\ clean' = FALSE
  /\ UNCHANGED <<urlValid, mounted, connected, timers, reconnectCount>>

Disconnect ==
  /\ mounted = "yes"
  /\ sockets' = CloseCall(sockets, wsRef)
  /\ wsRef' = 0
  /\ connected' = FALSE
  /\ afterDisconnect' = TRUE
  /\ last' = Event("disconnect", FALSE, "none")
  /\ UNCHANGED <<lastMessage, dashVars, simVars>>
  /\ UNCHANGED <<urlValid, mounted, reconnectCount, timers, explicitCalls, clean>>

CanSend == wsRef # 0 /\ sockets[wsRef].state = "OPEN"

SendMessage ==
  /\ mounted = "yes"
  /\ last' = Event("send", CanSend, "none")
  /\ UNCHANGED <<lastMessage, dashVars, simVars>>
  /\ UNCHANGED <<urlValid, mounted, sockets, wsRef, reconnectCount, connected,
                 timers, explicitCalls, afterDisconnect, clean>>

(***************************************************************************)
(* Socket events.                                                          *)
(***************************************************************************)
CountAtOpenKept(c) == c

CountAtOpen(c) == 0

SocketOpen(s) ==
  /\ sockets[s].state = "CONNECTING"
  /\ sockets' = [sockets EXCEPT ![s].state = "OPEN", ![s].opened = TRUE]
  /\ connected' = TRUE
  /\ reconnectCount' = CountAtOpen(reconnectCount)
  /\ last' = Event("open", reconnectCount > 0, "onOpen")
  /\ UNCHANGED <<lastMessage, dashVars, simVars>>
  /\ clean' = FALSE
  /\ UNCHANGED <<urlValid, mounted, wsRef, timers, explicitCalls, afterDisconnect>>

ShouldReconnectLe(c) == c <= reconnectAttempts

ShouldReconnect(c) == c < reconnectAttempts

SocketClose(s) ==
  /\ sockets[s].state \in {"CONNECTING", "OPEN", "CLOSING"}
  /\ sockets' = [sockets EXCEPT ![s] = ClosedSocket]
  /\ connected' = FALSE
  /\ IF ShouldReconnect(reconnectCount)
       THEN /\ reconnectCount' = reconnectCount + 1
            /\ timers' = timers + 1
       ELSE UNCHANGED <<reconnectCount, timers>>
  /\ last' = Event("close", ShouldReconnect(reconnectCount), "onClose")
  /\ UNCHANGED <<lastMessage, dashVars, simVars>>
  /\ UNCHANGED <<urlValid, mounted, wsRef, explicitCalls, afterDisconnect, clean>>

SocketError(s) ==
  /\ sockets[s].state \in {"CONNECTING", "OPEN"}
  /\ last' = Event("error", FALSE, "onError")
  /\ UNCHANGED <<lastMessage, dashVars, simVars>>
  /\ UNCHANGED <<urlValid, mounted, sockets, wsRef, reconnectCount, connected,
                 timers, explicitCalls, afterDisconnect, clean>>

\* ws.onmessage = (event) => { setLastMessage(event); }: the state keeps
\* one event, the latest
SocketMessage(s, frame) ==
  /\ mounted = "yes"
  /\ sockets[s].state = "OPEN"
  /\ lastMessage.seq < MaxInputs
  /\ lastMessage' = [seq |-> lastMessage.seq + 1, frame |-> frame]
  /\ last' = Event("message", FALSE, "onMessage")
  /\ UNCHANGED <<dashVars, simVars>>
  /\ UNCHANGED <<urlValid, mounted, sockets, wsRef, reconnectCount, connected,
                 timers, explicitCalls, afterDisconnect, clean>>

\* setTimeout(() => connect(), reconnectInterval) fires
TimerFire ==
  /\ timers > 0
  /\ Len(sockets) < MaxSockets
  /\ timers' = timers - 1
  /\ connect(sockets, "timer")
  /\ last' = Event("timer", FALSE, "none")
  /\ UNCHANGED <<lastMessage, dashVars, simVars>>
  /\ UNCHANGED <<urlValid, mounted, connected, explicitCalls, afterDisconnect,
                 clean, reconnectCount>>

\* useState<MessageEvent | null>(null)
NoMessage == [seq |-> 0, frame |-> [json |-> FALSE, type |-> "none"]]

InitWS ==
  /\ urlValid \in BOOLEAN
  /\ mounted = "init"
  /\ sockets = <<>>
  /\ wsRef = 0
  /\ reconnectCount = 0
  /\ connected = FALSE
  /\ timers = 0
  /\ explicitCalls = 0
  /\ afterDisconnect = FALSE
  /\ clean = TRUE
  /\ last = NoEvent
  /\ lastMessage = NoMessage

NextWS ==
  \/ Mount
  \/ Unmount
  \/ EffectRerun
  \/ Reconnect
  \/ Disconnect
  \/ SendMessage
  \/ TimerFire
  \/ \E s \in SocketIds : SocketOpen(s)
  \/ \E s \in SocketIds : SocketClose(s)
  \/ \E s \in SocketIds : SocketError(s)

(***************************************************************************)
(* Dashboard controller: data.                                             *)
(***************************************************************************)
Ranges == {"24h", "7d", "30d", "1y"}

Clock == {Now0, Now0 + 2}

Solar(t, k) == [timestamp |-> t, kp_index |-> k]

Mental(t, d) == [timestamp |-> t, depression_index |-> d]

Corr(t, c) == [timestamp |-> t, correlation |-> c]    \* c in hundredths

Alert(i, n) == [id |-> i, acknowledged |-> FALSE, seq |-> n]

\* samples a push message or a 'latest' response may carry
SolarInputs ==
  {Solar(Now0 - 400, 1), Solar(Now0 - 40, 1), Solar(Now0 - 3, 1),
   Solar(Now0, 1), Solar(Now0, 2)}

CorrInputs == {Corr(Now0 - 3, 80)}

\* what the server holds; a historical response is its window for the range
ServerSolar ==
  <<Solar(Now0 - 40, 1), Solar(Now0 - 10, 1), Solar(Now0 - 3, 1), Solar(Now0, 1)>>

ServerMental == <<Mental(Now0 - 3, 1), Mental(Now0, 1)>>

ServerCorr == <<Corr(Now0 - 3, 80), Corr(Now0, -40)>>

Take(seq, n) == SubSeq(seq, 1, Min(n, Len(seq)))

Abs(x) == IF x < 0 THEN 0 - x ELSE x

RECURSIVE GCD(_, _)
GCD(a, b) == IF b = 0 THEN a ELSE GCD(b, a % b)

\* a rational number num/den in lowest terms
Ratio(num, den) == <<num \div GCD(num, den), den \div GCD(num, den)>>

RECURSIVE SumAbsCorrelation(_)
SumAbsCorrelation(data) ==
  IF data = <<>> THEN 0
  ELSE Abs(Head(data).correlation) + SumAbsCorrelation(Tail(data))

\* the mean taken without looking at the length: 0 / 0 when there is no sample
avgCorrelationUnguarded(data) ==
  IF Len(data) > 0 THEN Ratio(SumAbsCorrelation(data), Len(data)) ELSE <<0, 0>>

\* avgCorrelation of fetchDashboardData
avgCorrelation(data) ==
  IF Len(data) > 0 THEN Ratio(SumAbsCorrelation(data), Len(data)) ELSE <<0, 1>>

(***************************************************************************)
(* limitDataByTimeRange: keep the items at or after now minus the range.   *)
(***************************************************************************)
Horizon(range) ==
  CASE range = "24h" -> 1
    [] range = "7d" -> 7
    [] range = "30d" -> 30
    [] range = "1y" -> DaysPerYear
    [] OTHER -> 7

limitDataByTimeRange(data, range) ==
  LET cutoff == now - Horizon(range)
      keep(item) == item.timestamp >= cutoff
  IN SelectSeq(data, keep)

\* timestamps among the items that are older than now minus the active range
StaleStamps(items) ==
  {items[i].timestamp : i \in {j \in 1..Len(items) :
                                 items[j].timestamp < now - Horizon(timeRange)}}

DEvent(e, sol, cor) == [ev |-> e, solar |-> sol, corr |-> cor, id |-> 0]

\* an acknowledgeAlert step and the alert id it was called with
AckEvent(e, id) == [ev |-> e, solar |-> {}, corr |-> {}, id |-> id]

(***************************************************************************)
(* useEffect(..., [timeRange, selectedRegion, autoRefresh]):               *)
(* fetchDashboardData() and a new 30 s interval; the cleanup clears the    *)
(* previous interval.  The fetch and the interval capture the values of    *)
(* the render they were created in.                                        *)
(***************************************************************************)
clearIntervalNever(active) == active

\* return () => clearInterval(interval): the cleanup of an effect run clears
\* the interval that run created, the latest one
clearInterval(active) == SubSeq(active, 1, Len(active) - 1)

\* the cleanup of the previous run, if there was one, happens first
RunEffect(range, auto) ==
  /\ isLoading' = TRUE
  /\ bulks' = Append(bulks, [range |-> range])
  /\ pollTimer' = Append(clearInterval(pollTimer), [range |-> range, auto |-> auto])

DashMount ==
  /\ ~dashMounted
  /\ ~tornDown
  /\ dashMounted' = TRUE
  /\ RunEffect(timeRange, autoRefresh)
  /\ dlast' = DEvent("mount", {}, {})
  /\ UNCHANGED <<now, timeRange, autoRefresh, solarData, mentalHealthData,
                 correlationData, activeAlerts, metrics, polls, inputs, pushCount, resends>>
  /\ UNCHANGED <<acks, lastRecompute, view>>
  /\ UNCHANGED tornDown
  /\ UNCHANGED <<selectedRegion, download, processed>>
  /\ UNCHANGED <<wsVars, simVars>>

SetTimeRange(r) ==
  /\ dashMounted
  /\ r # timeRange
  /\ inputs < MaxInputs
  /\ inputs' = inputs + 1
  /\ timeRange' = r
  /\ RunEffect(r, autoRefresh)
  /\ dlast' = DEvent("set_range", {}, {})
  /\ UNCHANGED <<dashMounted, now, autoRefresh, solarData, mentalHealthData,
                 correlationData, activeAlerts, metrics, polls,
                 pushCount, resends>>
  /\ UNCHANGED <<acks, lastRecompute, view>>
  /\ UNCHANGED tornDown
  /\ UNCHANGED <<selectedRegion, download, processed>>
  /\ UNCHANGED <<wsVars, simVars>>

ToggleAutoRefresh ==
  /\ dashMounted
  /\ inputs < MaxInputs
  /\ inputs' = inputs + 1
  /\ autoRefresh' = ~autoRefresh
  /\ RunEffect(timeRange, ~autoRefresh)
  /\ dlast' = DEvent("toggle", {}, {})
  /\ UNCHANGED <<dashMounted, now, timeRange, solarData, mentalHealthData,
                 correlationData, activeAlerts, metrics, polls,
                 pushCount, resends>>
  /\ UNCHANGED <<acks, lastRecompute, view>>
  /\ UNCHANGED tornDown
  /\ UNCHANGED <<selectedRegion, download, processed>>
  /\ UNCHANGED <<wsVars, simVars>>

\* time passes
Tick ==
  /\ \E t \in Clock : t > now /\ now' = t
  /\ dlast' = DEvent("tick", {}, {})
  /\ UNCHANGED <<dashMounted, timeRange, autoRefresh, solarData,
                 mentalHealthData, correlationData, activeAlerts, metrics,
                 isLoading, pollTimer, bulks, polls, inputs,
                 pushCount, resends>>
  /\ UNCHANGED <<acks, lastRecompute, view>>
  /\ UNCHANGED tornDown
  /\ UNCHANGED <<selectedRegion, download, processed>>
  /\ UNCHANGED <<wsVars, simVars>>

\* the cleanup of the effect when the component unmounts: clearInterval;
\* no fetch is cancelled
DashUnmount ==
  /\ dashMounted
  /\ dashMounted' = FALSE
  /\ tornDown' = TRUE
  /\ pollTimer' = clearInterval(pollTimer)
  /\ dlast' = DEvent("unmount", {}, {})
  /\ UNCHANGED <<now, timeRange, autoRefresh, solarData, mentalHealthData,
                 correlationData, activeAlerts, metrics, isLoading, bulks,
                 polls, inputs, pushCount, resends, acks, lastRecompute, view>>
  /\ UNCHANGED <<selectedRegion, download, processed>>
  /\ UNCHANGED <<wsVars, simVars>>

StateUpdateAppliesAlways == TRUE

\* the setters are those of useState: React drops the state update of a
\* component that was unmounted
StateUpdateApplies == ~tornDown

(***************************************************************************)
(* fetchDashboardData: the part after the awaits.  resp.ok is FALSE when a *)
(* fetch or a json() rejected; an absent data/alerts field is <<>>.        *)
(***************************************************************************)
HistoricalWindow(data, range) ==
  LET inWindow(item) == item.timestamp >= now - Horizon(range)
  IN SelectSeq(data, inWindow)

\* the four requests of Promise.all
Requests == {"solar", "mental", "correlation", "alerts"}

\* failed: the requests whose fetch or json() rejected
BulkResponse(ok, sol, men, cor, al) ==
  [ok |-> ok, solar |-> sol, mental |-> men, corr |-> cor, alerts |-> al,
   failed |-> IF ok THEN {} ELSE Requests]

\* some requests rejected, the others answered sol, men, cor, al
PartialFailure(failed, sol, men, cor, al) ==
  [ok |-> FALSE, solar |-> sol, mental |-> men, corr |-> cor, alerts |-> al,
   failed |-> failed]

\* a fetchDashboardData completion: the range it captured and what it was answered
BulkEvent(e, range, resp) ==
  [ev |-> e, solar |-> {}, corr |-> {}, id |-> 0, range |-> range, resp |-> resp]

FailedBulk == BulkResponse(FALSE, <<>>, <<>>, <<>>, <<>>)

SeriesResponses(range) ==
  {FailedBulk,
   BulkResponse(TRUE, <<>>, <<>>, <<>>, <<>>),
   BulkResponse(TRUE, HistoricalWindow(ServerSolar, range),
                HistoricalWindow(ServerMental, range),
                HistoricalWindow(ServerCorr, range), <<>>)}

\* what /alerts/active answers: n alerts the server holds, none of them pushed
ServerAlerts(n) == [i \in 1..n |-> Alert(1000 + i, 0)]

AlertResponses ==
  {FailedBulk} \cup
  {BulkResponse(TRUE, <<>>, <<>>, <<>>, ServerAlerts(n)) : n \in {0, 1, AlertCap + 1}}

Remove(seq, i) == SubSeq(seq, 1, i - 1) \o SubSeq(seq, i + 1, Len(seq))

recomputeMetricsAccumulate(prev, resp) ==
  [correlation_strength |-> avgCorrelation(resp.corr),
   active_alerts |-> Len(resp.alerts),
   data_points |-> prev.data_points + Len(resp.solar) + Len(resp.mental),
   prediction_accuracy |-> prev.prediction_accuracy,
   last_update |-> now]

\* setMetrics(prev => ({...prev, correlation_strength: avgCorrelation, ...}))
recomputeMetrics(prev, resp) ==
  [correlation_strength |-> avgCorrelation(resp.corr),
   active_alerts |-> Len(resp.alerts),
   data_points |-> Len(resp.solar) + Len(resp.mental),
   prediction_accuracy |-> prev.prediction_accuracy,
   last_update |-> now]

\* the fields of the metrics that the recomputation derives from the data
Derived(m) == <<m.correlation_strength, m.active_alerts, m.data_points>>

NoRecompute ==
  [done |-> FALSE, input |-> <<>>, metrics |-> <<>>, repeat |-> FALSE,
   agreeDerived |-> FALSE, agreeAll |-> FALSE]

\* history of a recomputation from input giving m, before being the previous
\* one: repeat when both had the same input, and whether the results agree
Recomputed(before, input, m) ==
  [done |-> TRUE, input |-> input, metrics |-> m,
   repeat |-> before.done /\ before.input = input,
   agreeDerived |-> before.done /\ Derived(m) = Derived(before.metrics),
   agreeAll |-> before.done /\ m = before.metrics]

LoadingAfterTryOnly(resp) == IF resp.ok THEN FALSE ELSE isLoading

\* finally { setIsLoading(false) }
LoadingAfter(resp) == FALSE

BulkDone(i, resp) ==
  /\ i \in 1..Len(bulks)
  /\ bulks' = Remove(bulks, i)
  /\ isLoading' = IF StateUpdateApplies THEN LoadingAfter(resp) ELSE isLoading
  /\ IF resp.ok /\ StateUpdateApplies
       THEN /\ solarData' = resp.solar
            /\ mentalHealthData' = resp.mental
            /\ correlationData' = resp.corr
            /\ activeAlerts' = resp.alerts
            /\ metrics' = recomputeMetrics(metrics, resp)
            /\ lastRecompute' =
                 Recomputed(lastRecompute,
                            <<resp.solar, resp.mental, resp.corr, resp.alerts>>,
                            recomputeMetrics(metrics, resp))
            /\ pushCount' = 0
            /\ dlast' = BulkEvent("bulk_done", bulks[i].range, resp)
       ELSE /\ UNCHANGED <<solarData, mentalHealthData, correlationData,
                           activeAlerts, metrics, pushCount, lastRecompute>>
            /\ dlast' = BulkEvent(IF resp.ok THEN "bulk_dropped" ELSE "bulk_failed",
                                  bulks[i].range, resp)
  /\ UNCHANGED <<dashMounted, now, timeRange, autoRefresh, pollTimer, polls,
                 inputs, resends, acks, view>>
  /\ UNCHANGED tornDown
  /\ UNCHANGED <<selectedRegion, download, processed>>
  /\ UNCHANGED <<wsVars, simVars>>

(***************************************************************************)
(* The interval callback and fetchLatestData.                              *)
(***************************************************************************)
ShouldPollWhenDisconnected(timer) == timer.auto /\ ~connected

\* if (autoRefresh), with the autoRefresh that the interval callback captured
ShouldPoll(timer) == timer.auto

PollTick ==
  /\ pollTimer # <<>>
  /\ inputs < MaxInputs
  /\ inputs' = inputs + 1
  /\ polls' = IF ShouldPoll(pollTimer[1])
                THEN Append(polls, [range |-> pollTimer[1].range])
                ELSE polls
  /\ dlast' = DEvent("poll_tick", {}, {})
  /\ UNCHANGED <<dashMounted, now, timeRange, autoRefresh, solarData,
                 mentalHealthData, correlationData, activeAlerts, metrics,
                 isLoading, pollTimer, bulks, pushCount,
                 resends>>
  /\ UNCHANGED <<acks, lastRecompute, view>>
  /\ UNCHANGED tornDown
  /\ UNCHANGED <<selectedRegion, download, processed>>
  /\ UNCHANGED <<wsVars, simVars>>

\* a 'latest' response: resp.solar and resp.corr hold the data field, if any
PollResponse(ok, sol, cor) == [ok |-> ok, solar |-> sol, corr |-> cor]

PollResponses ==
  {PollResponse(FALSE, <<>>, <<>>)} \cup
  {PollResponse(TRUE, sol, cor) :
     sol \in {<<>>} \cup {<<x>> : x \in SolarInputs},
     cor \in {<<>>} \cup {<<x>> : x \in CorrInputs}}

PollDone(i, resp) ==
  /\ i \in 1..Len(polls)
  /\ polls' = Remove(polls, i)
  /\ solarData' =
       IF resp.ok /\ resp.solar # <<>> /\ StateUpdateApplies
         THEN limitDataByTimeRange(solarData \o resp.solar, polls[i].range)
         ELSE solarData
  /\ correlationData' =
       IF resp.ok /\ resp.corr # <<>> /\ StateUpdateApplies
         THEN limitDataByTimeRange(correlationData \o resp.corr, polls[i].range)
         ELSE correlationData
  /\ dlast' = IF resp.ok
                THEN DEvent("poll_done", StaleStamps(resp.solar), StaleStamps(resp.corr))
                ELSE DEvent("poll_failed", {}, {})
  /\ UNCHANGED <<dashMounted, now, timeRange, autoRefresh, mentalHealthData,
                 activeAlerts, metrics, isLoading, pollTimer, bulks,
                 inputs, pushCount, resends>>
  /\ UNCHANGED <<acks, lastRecompute, view>>
  /\ UNCHANGED tornDown
  /\ UNCHANGED <<selectedRegion, download, processed>>
  /\ UNCHANGED <<wsVars, simVars>>

(***************************************************************************)
(* Push messages: handleSolarUpdate, handleCorrelationUpdate,              *)
(* handleNewAlert.                                                         *)
(***************************************************************************)
PushSolar(data) ==
  /\ dashMounted
  /\ inputs < MaxInputs
  /\ inputs' = inputs + 1
  /\ solarData' = limitDataByTimeRange(Append(solarData, data), timeRange)
  /\ dlast' = DEvent("push_solar", StaleStamps(<<data>>), {})
  /\ UNCHANGED <<dashMounted, now, timeRange, autoRefresh, mentalHealthData,
                 correlationData, activeAlerts, metrics, isLoading, pollTimer,
                 bulks, polls, pushCount, resends>>
  /\ UNCHANGED <<acks, lastRecompute, view>>
  /\ UNCHANGED tornDown
  /\ processed' = lastMessage.seq
  /\ UNCHANGED <<selectedRegion, download>>
  /\ UNCHANGED <<wsVars, simVars>>

PushCorrelation(data) ==
  /\ dashMounted
  /\ inputs < MaxInputs
  /\ inputs' = inputs + 1
  /\ correlationData' = limitDataByTimeRange(Append(correlationData, data), timeRange)
  /\ dlast' = DEvent("push_corr", {}, StaleStamps(<<data>>))
  /\ UNCHANGED <<dashMounted, now, timeRange, autoRefresh, solarData,
                 mentalHealthData, activeAlerts, metrics, isLoading, pollTimer,
                 bulks, polls, pushCount, resends>>
  /\ UNCHANGED <<acks, lastRecompute, view>>
  /\ UNCHANGED tornDown
  /\ processed' = lastMessage.seq
  /\ UNCHANGED <<selectedRegion, download>>
  /\ UNCHANGED <<wsVars, simVars>>

handleNewAlertKeepOldest(alert, prev) == Take(prev \o <<alert>>, AlertCap)

\* [alert, ...prev].slice(0, 20)
handleNewAlert(alert, prev) == Take(<<alert>> \o prev, AlertCap)

HeldIds == {activeAlerts[i].id : i \in 1..Len(activeAlerts)}

ResendIds == {1, 2}

PushAlert(id) ==
  /\ dashMounted
  /\ pushCount < MaxPushes
  /\ \/ id = pushCount + 1 /\ resends' = resends
     \/ /\ id \in HeldIds \cap ResendIds
        /\ resends < MaxResends
        /\ resends' = resends + 1
  /\ pushCount' = pushCount + 1
  /\ activeAlerts' = handleNewAlert(Alert(id, pushCount + 1), activeAlerts)
  /\ dlast' = DEvent("push_alert", {}, {})
  /\ UNCHANGED <<dashMounted, now, timeRange, autoRefresh, solarData,
                 mentalHealthData, correlationData, metrics, isLoading,
                 pollTimer, bulks, polls, inputs>>
  /\ UNCHANGED <<acks, lastRecompute, view>>
  /\ UNCHANGED tornDown
  /\ processed' = lastMessage.seq
  /\ UNCHANGED <<selectedRegion, download>>
  /\ UNCHANGED <<wsVars, simVars>>

(***************************************************************************)
(* acknowledgeAlert: the call up to its await, and what runs after it.     *)
(* The fetch resolves with any HTTP status ("ok", or "rejected" for a      *)
(* non-2xx answer) or rejects ("network"); response.ok is never read.      *)
(***************************************************************************)
AckIds == ResendIds \cup {1001}

AckResponses ==
  {FailedBulk} \cup
  {BulkResponse(TRUE, <<>>, <<>>, <<>>, ServerAlerts(n)) : n \in {0, 1}}

AckOutcomes == {"ok", "rejected", "network"}

Unacknowledged(list) ==
  {list[j].id : j \in {k \in 1..Len(list) : ~list[k].acknowledged}}

\* the button that calls acknowledgeAlert(alert.id) is rendered for an alert
\* that is not acknowledged
AcknowledgeStart(id) ==
  /\ dashMounted
  /\ id \in Unacknowledged(activeAlerts) \cap AckIds
  /\ inputs < MaxInputs
  /\ inputs' = inputs + 1
  /\ acks' = Append(acks, id)
  /\ dlast' = AckEvent("ack_start", id)
  /\ UNCHANGED <<dashMounted, now, timeRange, autoRefresh, solarData,
                 mentalHealthData, correlationData, activeAlerts, metrics,
                 isLoading, pollTimer, bulks, polls, pushCount, resends,
                 lastRecompute, view>>
  /\ UNCHANGED tornDown
  /\ UNCHANGED <<selectedRegion, download, processed>>
  /\ UNCHANGED <<wsVars, simVars>>

markAcknowledgedNever(list, id) == list

\* prev.map(alert => alert.id === alertId ? {...alert, acknowledged: true} : alert)
markAcknowledged(list, id) ==
  [j \in 1..Len(list) |->
     IF list[j].id = id THEN [list[j] EXCEPT !.acknowledged = TRUE] ELSE list[j]]

AcknowledgeDone(i, outcome) ==
  /\ i \in 1..Len(acks)
  /\ acks' = Remove(acks, i)
  /\ activeAlerts' = IF outcome = "network" \/ ~StateUpdateApplies
                       THEN activeAlerts
                       ELSE markAcknowledged(activeAlerts, acks[i])
  /\ dlast' = AckEvent("ack_done", acks[i])
  /\ UNCHANGED <<dashMounted, now, timeRange, autoRefresh, solarData,
                 mentalHealthData, correlationData, metrics, isLoading,
                 pollTimer, bulks, polls, inputs, pushCount, resends,
                 lastRecompute, view>>
  /\ UNCHANGED tornDown
  /\ UNCHANGED <<selectedRegion, download, processed>>
  /\ UNCHANGED <<wsVars, simVars>>

(***************************************************************************)
(* The metrics_update message: setMetrics(data.payload).                   *)
(***************************************************************************)
MetricsInputs ==
  {[active_alerts |-> 7, data_points |-> 7, correlation_strength |-> <<1, 2>>,
    prediction_accuracy |-> 90, last_update |-> Now0],
   [active_alerts |-> 0, data_points |-> 9, correlation_strength |-> <<1, 4>>,
    prediction_accuracy |-> 80, last_update |-> Now0 + 1]}

mergeMetrics(prev, payload) ==
  [payload EXCEPT !.prediction_accuracy = prev.prediction_accuracy]

\* setMetrics(data.payload)
replaceMetrics(prev, payload) == payload

PushMetrics(payload) ==
  /\ dashMounted
  /\ inputs < MaxInputs
  /\ inputs' = inputs + 1
  /\ metrics' = replaceMetrics(metrics, payload)
  \* history: id holds the prediction_accuracy that was replaced
  /\ dlast' = [DEvent("push_metrics", {}, {}) EXCEPT !.id = metrics.prediction_accuracy]
  /\ UNCHANGED <<dashMounted, now, timeRange, autoRefresh, solarData,
                 mentalHealthData, correlationData, activeAlerts, isLoading,
                 pollTimer, bulks, polls, pushCount, resends, acks,
                 lastRecompute, view>>
  /\ UNCHANGED tornDown
  /\ processed' = lastMessage.seq
  /\ UNCHANGED <<selectedRegion, download>>
  /\ UNCHANGED <<wsVars, simVars>>

(***************************************************************************)
(* The effect on lastMessage: JSON.parse, then the switch on data.type.    *)
(* A frame is the text of a message: json tells whether JSON.parse accepts *)
(* it, type and payload are what the text spells.                          *)
(***************************************************************************)
Frame(json, type, payload) == [json |-> json, type |-> type, payload |-> payload]

MessageKinds == {"solar_update", "correlation_update", "alert", "metrics_update"}

Frames ==
  {Frame(TRUE, "solar_update", x) : x \in {Solar(Now0 - 3, 1), Solar(Now0, 1)}} \cup
  {Frame(TRUE, "correlation_update", x) : x \in CorrInputs} \cup
  {Frame(TRUE, "alert", [id |-> id]) : id \in ResendIds} \cup
  {Frame(TRUE, "metrics_update", x) : x \in MetricsInputs} \cup
  {Frame(TRUE, "heartbeat", Solar(Now0, 2)), Frame(FALSE, "solar_update", Solar(Now0, 2))}

ParseOkAlways(frame) == TRUE

\* whether JSON.parse(lastMessage.data) returns; it throws otherwise
ParseOk(frame) == frame.json

HandlerOfSwapped(frame) ==
  IF ~ParseOk(frame) THEN "none"
  ELSE CASE frame.type = "solar_update" -> "handleCorrelationUpdate"
         [] frame.type = "correlation_update" -> "handleSolarUpdate"
         [] frame.type = "alert" -> "handleNewAlert"
         [] frame.type = "metrics_update" -> "setMetrics"
         [] OTHER -> "none"

\* the handler the switch calls; none when the parse threw (the catch logs)
\* or when no case matches
HandlerOf(frame) ==
  IF ~ParseOk(frame) THEN "none"
  ELSE CASE frame.type = "solar_update" -> "handleSolarUpdate"
         [] frame.type = "correlation_update" -> "handleCorrelationUpdate"
         [] frame.type = "alert" -> "handleNewAlert"
         [] frame.type = "metrics_update" -> "setMetrics"
         [] OTHER -> "none"

\* a message for which the effect calls no handler
DiscardMessage ==
  /\ dashMounted
  /\ inputs < MaxInputs
  /\ inputs' = inputs + 1
  /\ dlast' = DEvent("discard", {}, {})
  /\ UNCHANGED <<dashMounted, now, timeRange, autoRefresh, solarData,
                 mentalHealthData, correlationData, activeAlerts, metrics,
                 isLoading, pollTimer, bulks, polls, pushCount, resends, acks,
                 lastRecompute, view>>
  /\ UNCHANGED tornDown
  /\ processed' = lastMessage.seq
  /\ UNCHANGED <<selectedRegion, download>>
  /\ UNCHANGED <<wsVars, simVars>>

OnMessage(frame) ==
  \/ HandlerOf(frame) = "handleSolarUpdate" /\ PushSolar(frame.payload)
  \/ HandlerOf(frame) = "handleCorrelationUpdate" /\ PushCorrelation(frame.payload)
  \/ HandlerOf(frame) = "handleNewAlert" /\ PushAlert(frame.payload.id)
  \/ HandlerOf(frame) = "setMetrics" /\ PushMetrics(frame.payload)
  \/ HandlerOf(frame) = "none" /\ DiscardMessage

\* useEffect(() => { if (lastMessage) { ... } }, [lastMessage]): the effect
\* runs after a render in which lastMessage differs from the one it last
\* ran for, with the lastMessage of that render; whether a render happens
\* between two onmessage events is the scheduler's choice
MessageEffect ==
  /\ processed # lastMessage.seq
  /\ OnMessage(lastMessage.frame)

\* frames the server may send, those of alerts apart
ArrivingFrames == {frame \in Frames : frame.type # "alert"}

MetricsResponses(range) ==
  {FailedBulk} \cup
  {BulkResponse(TRUE, sol, men, cor, ServerAlerts(n)) :
     sol \in {<<>>, HistoricalWindow(ServerSolar, range)},
     men \in {<<>>, HistoricalWindow(ServerMental, range)},
     cor \in {<<>>, HistoricalWindow(ServerCorr, range)},
     n \in {0, 1}}

(***************************************************************************)
(* The chart projections, called by every render of the overview tab.      *)
(* Correlations are in hundredths.  A row keeps the fields that the       *)
(* samples of this model have.                                              *)
(***************************************************************************)
\* array.slice(-n)
Last(seq, n) == SubSeq(seq, Len(seq) - Min(n, Len(seq)) + 1, Len(seq))

\* mental?.depression_index || 0
DepressionAt(index) ==
  IF index <= Len(mentalHealthData)
    THEN mentalHealthData[index].depression_index ELSE 0

\* correlationData[index]?.correlation || 0
CorrelationAt(index) ==
  IF index <= Len(correlationData) THEN correlationData[index].correlation ELSE 0

getCombinedChartDataTruncated ==
  Last([index \in 1..Min(Len(solarData), Len(mentalHealthData)) |->
          [kp_index |-> solarData[index].kp_index,
           depression_index |-> DepressionAt(index),
           correlation |-> CorrelationAt(index)]], ChartRows)

getCombinedChartData ==
  Last([index \in 1..Len(solarData) |->
          [kp_index |-> solarData[index].kp_index,
           depression_index |-> DepressionAt(index),
           correlation |-> CorrelationAt(index)]], ChartRows)

\* the index is the position in the slice, not in solarData
getScatterData ==
  LET slice == Last(solarData, ScatterPoints)
  IN [index \in 1..Len(slice) |->
        [x |-> slice[index].kp_index, y |-> DepressionAt(index)]]

CategoryNames ==
  <<"Very Strong (r > 0.7)", "Strong (0.5-0.7)", "Moderate (0.3-0.5)",
    "Weak (0.1-0.3)", "None/Very Weak (<0.1)">>

CategoryOfInclusive(point) ==
  LET absCorr == Abs(point.correlation)
  IN IF absCorr >= 70 THEN 1
     ELSE IF absCorr >= 50 THEN 2
     ELSE IF absCorr >= 30 THEN 3
     ELSE IF absCorr >= 10 THEN 4
     ELSE 5

\* the if / else-if chain of the forEach
CategoryOf(point) ==
  LET absCorr == Abs(point.correlation)
  IN IF absCorr > 70 THEN 1
     ELSE IF absCorr > 50 THEN 2
     ELSE IF absCorr > 30 THEN 3
     ELSE IF absCorr > 10 THEN 4
     ELSE 5

getCorrelationStrengthData ==
  LET value(k) ==
        Cardinality({j \in 1..Len(correlationData) :
                       CategoryOf(correlationData[j]) = k})
      categories == [k \in 1..Len(CategoryNames) |->
                       [name |-> CategoryNames[k], value |-> value(k)]]
      counted(cat) == cat.value > 0
  IN SelectSeq(categories, counted)

\* bulk answers in which every request, or all but one, succeeded
LoadResponses(range) ==
  SeriesResponses(range) \cup
  {PartialFailure({r}, IF r = "solar" THEN <<>> ELSE HistoricalWindow(ServerSolar, range),
                  HistoricalWindow(ServerMental, range),
                  IF r = "correlation" THEN <<>> ELSE HistoricalWindow(ServerCorr, range),
                  IF r = "alerts" THEN <<>> ELSE ServerAlerts(1)) :
     r \in {"solar", "correlation", "alerts"}}

\* one sample of each series that only a poll delivers and a later one that
\* only a push delivers
PolledSolar == Solar(Now0 - 3, 1)

PushedSolar == Solar(Now0, 1)

PolledCorr == Corr(Now0 - 3, 80)

PushedCorr == Corr(Now0, -40)

InterleaveResponses ==
  {PollResponse(TRUE, <<PolledSolar>>, <<>>),
   PollResponse(TRUE, <<PolledSolar>>, <<PolledCorr>>)}

\* bulk answers for a controller that may be torn down meanwhile
TeardownResponses(range) ==
  {FailedBulk,
   BulkResponse(TRUE, HistoricalWindow(ServerSolar, range),
                HistoricalWindow(ServerMental, range),
                HistoricalWindow(ServerCorr, range), ServerAlerts(1))}

NoView == [combined |-> <<>>, scatter |-> <<>>, strength |-> <<>>]

\* while isLoading the component returns the spinner and calls no projection
Render ==
  /\ ~isLoading
  /\ view' = [combined |-> getCombinedChartData, scatter |-> getScatterData,
              strength |-> getCorrelationStrengthData]
  /\ dlast' = DEvent("render", {}, {})
  /\ UNCHANGED <<dashMounted, now, timeRange, autoRefresh, solarData,
                 mentalHealthData, correlationData, activeAlerts, metrics,
                 isLoading, pollTimer, bulks, polls, inputs, pushCount,
                 resends, acks, lastRecompute>>
  /\ UNCHANGED tornDown
  /\ UNCHANGED <<selectedRegion, download, processed>>
  /\ UNCHANGED <<wsVars, simVars>>

\* bulk answers with up to MaxSamples correlation samples
CorrValues == {-80, 0, 10, 11, 20, 30, 31, 40, 50, 51, 70, 71, 80, 100}

StrengthResponses ==
  {BulkResponse(TRUE, <<>>, <<>>, cor, <<>>) :
     cor \in UNION {[1..n -> {Corr(Now0, c) : c \in CorrValues}] : n \in 0..MaxSamples}}

\* bulk answers with n solar and m mental-health samples, each sample
\* carrying its index as value
ChartResponses ==
  {BulkResponse(TRUE, [i \in 1..n |-> Solar(Now0, i)],
                [j \in 1..m |-> Mental(Now0, j)], <<>>, <<>>) :
     n \in 0..MaxChartLen, m \in 0..MaxChartLen}

InitDash ==
  /\ dashMounted = FALSE
  /\ now = Now0
  /\ timeRange = "7d"
  /\ autoRefresh = TRUE
  /\ solarData = <<>>
  /\ mentalHealthData = <<>>
  /\ correlationData = <<>>
  /\ activeAlerts = <<>>
  /\ metrics = [active_alerts |-> 0, data_points |-> 0,
                correlation_strength |-> <<0, 1>>, prediction_accuracy |-> 0,
                last_update |-> Now0]
  /\ isLoading = TRUE
  /\ pollTimer = <<>>
  /\ bulks = <<>>
  /\ polls = <<>>
  /\ inputs = 0
  /\ pushCount = 0
  /\ resends = 0
  /\ dlast = DEvent("none", {}, {})
  /\ acks = <<>>
  /\ lastRecompute = NoRecompute
  /\ view = NoView
  /\ tornDown = FALSE
  /\ selectedRegion = "GLOBAL"
  /\ download = <<>>
  /\ processed = 0

Regions == {"GLOBAL", "EUROPE", "NORTH_AMERICA", "ASIA"}

\* <Select value={selectedRegion} onValueChange={setSelectedRegion}>: the
\* region is a dependency of the effect
SetRegion(g) ==
  /\ dashMounted
  /\ g # selectedRegion
  /\ inputs < MaxInputs
  /\ inputs' = inputs + 1
  /\ selectedRegion' = g
  /\ RunEffect(timeRange, autoRefresh)
  /\ dlast' = DEvent("set_region", {}, {})
  /\ UNCHANGED <<dashMounted, now, timeRange, autoRefresh, solarData,
                 mentalHealthData, correlationData, activeAlerts, metrics,
                 polls, pushCount, resends>>
  /\ UNCHANGED <<acks, lastRecompute, view, tornDown, download, processed>>
  /\ UNCHANGED <<wsVars, simVars>>

ExportFormats == {"json", "csv"}

\* convertToCSV: the header line, then the rows of the solar samples (of
\* the three rows per sample the one of the field the model keeps) and the
\* rows of the correlation samples; nothing of the other exported fields
convertToCSV ==
  <<<<"Dataset", "Timestamp", "Value">>>> \o
  [i \in 1..Len(solarData) |->
     <<"Solar", "Kp", solarData[i].timestamp, solarData[i].kp_index>>] \o
  [i \in 1..Len(correlationData) |->
     <<"Correlation", correlationData[i].timestamp, correlationData[i].correlation>>]

\* JSON.stringify(data, null, 2) or convertToCSV(data)
exportContent(format) ==
  IF format = "json"
    THEN [solar |-> solarData, mental_health |-> mentalHealthData,
          correlation |-> correlationData, alerts |-> activeAlerts,
          metrics |-> metrics, export_date |-> now]
    ELSE convertToCSV

exportDataRefetching(format) ==
  /\ dashMounted
  /\ ~isLoading
  /\ Len(download) < MaxExports
  /\ download' = Append(download, [format |-> format, date |-> now,
                                   content |-> exportContent(format)])
  /\ RunEffect(timeRange, autoRefresh)
  /\ dlast' = DEvent("export", {}, {})
  /\ UNCHANGED <<dashMounted, now, timeRange, autoRefresh, solarData,
                 mentalHealthData, correlationData, activeAlerts, metrics,
                 polls, inputs, pushCount, resends>>
  /\ UNCHANGED <<acks, lastRecompute, view, tornDown, selectedRegion, processed>>
  /\ UNCHANGED <<wsVars, simVars>>

\* the export buttons, which the component renders once it is not loading:
\* a Blob of the content, downloaded as heliobio_dashboard_<date>.<format>
exportData(format) ==
  /\ dashMounted
  /\ ~isLoading
  /\ Len(download) < MaxExports
  /\ download' = Append(download, [format |-> format, date |-> now,
                                   content |-> exportContent(format)])
  /\ dlast' = DEvent("export", {}, {})
  /\ UNCHANGED <<dashMounted, now, timeRange, autoRefresh, solarData,
                 mentalHealthData, correlationData, activeAlerts, metrics,
                 isLoading, pollTimer, bulks, polls, inputs, pushCount, resends>>
  /\ UNCHANGED <<acks, lastRecompute, view, tornDown, selectedRegion, processed>>
  /\ UNCHANGED <<wsVars, simVars>>

(***************************************************************************)
(* HelioBioScientificDashboard: a 2 s interval, created once by an effect  *)
(* with no dependencies, moves three metric states by random steps and     *)
(* appends a row to timeSeriesData.  Values are in tenths (kpIndex,        *)
(* engagement), in thousandths (pearson) and in units (sunspotNumber); a   *)
(* Math.random() draw is a choice between the two ends of its step.        *)
(***************************************************************************)
InitialSolarMetrics == [sunspotNumber |-> 147, kpIndex |-> 63]

InitialSocialMetrics == [engagement |-> 674, crispation |-> 542]

InitialCorrelationData == [pearson |-> 731]

Max(a, b) == IF a > b THEN a ELSE b

Clamp(lo, hi, x) == Max(lo, Min(hi, x))

\* setSolarMetrics(prev => ...): the values the updater may return
updateSolarMetrics(prev) ==
  {[sunspotNumber |-> Max(0, prev.sunspotNumber + d), kpIndex |-> prev.kpIndex] :
     d \in {0, 4}}

\* setSocialMetrics(prev => ...)
updateSocialMetrics(prev) ==
  {[engagement |-> Clamp(0, 1000, prev.engagement + d),
    crispation |-> prev.crispation] : d \in {0, 20}}

\* setCorrelationData(prev => ...)
updateCorrelations(prev) ==
  {[pearson |-> Clamp(0, 1000, prev.pearson + d)] : d \in {0, 20}}

\* the row updateTimeSeries pushes, from the states its closure holds
Row(time, solar, social, corr) ==
  [time |-> time, sunspots |-> solar.sunspotNumber, kp |-> solar.kpIndex * 10,
   engagement |-> social.engagement, crispation |-> social.crispation,
   correlation |-> corr.pearson * 100]

updateTimeSeriesDropNewest(prev, row) ==
  LET newData == Append(prev, row)
  IN IF Len(newData) > SeriesCap
       THEN SubSeq(newData, 1, Len(newData) - 1) ELSE newData

\* setTimeSeriesData(prev => { push; if (length > 30) shift(); })
updateTimeSeries(prev, row) ==
  LET newData == Append(prev, row)
  IN IF Len(newData) > SeriesCap THEN Tail(newData) ELSE newData

\* the states held by the updateTimeSeries that the interval callback calls:
\* the callback was created by the first render's effect and keeps calling
\* that render's updateTimeSeries, whose closure holds that render's states
CapturedByTimer ==
  [solar |-> InitialSolarMetrics, social |-> InitialSocialMetrics,
   corr |-> InitialCorrelationData]

SimMount ==
  /\ simMounted = "init"
  /\ simMounted' = "yes"
  /\ UNCHANGED <<solarMetrics, socialMetrics, simCorrelationData,
                 timeSeriesData, ticks>>
  /\ UNCHANGED <<wsVars, dashVars>>

\* the interval callback; the row's time is the clock at the tick
SimTick ==
  /\ simMounted = "yes"
  /\ ticks < MaxTicks
  /\ ticks' = ticks + 1
  /\ solarMetrics' \in updateSolarMetrics(solarMetrics)
  /\ socialMetrics' \in updateSocialMetrics(socialMetrics)
  /\ simCorrelationData' \in updateCorrelations(simCorrelationData)
  /\ timeSeriesData' =
       updateTimeSeries(timeSeriesData,
                        Row(ticks + 1, CapturedByTimer.solar,
                            CapturedByTimer.social, CapturedByTimer.corr))
  /\ UNCHANGED simMounted
  /\ UNCHANGED <<wsVars, dashVars>>

\* return () => clearInterval(timer)
SimUnmount ==
  /\ simMounted = "yes"
  /\ simMounted' = "no"
  /\ UNCHANGED <<solarMetrics, socialMetrics, simCorrelationData,
                 timeSeriesData, ticks>>
  /\ UNCHANGED <<wsVars, dashVars>>

InitSim ==
  /\ simMounted = "init"
  /\ solarMetrics = InitialSolarMetrics
  /\ socialMetrics = InitialSocialMetrics
  /\ simCorrelationData = InitialCorrelationData
  /\ timeSeriesData = <<>>
  /\ ticks = 0

NextSim ==
  \/ SimMount
  \/ SimTick
  \/ SimUnmount

NextBuf ==
  \/ DashMount
  \/ Tick
  \/ \E r \in Ranges : SetTimeRange(r)
  \/ ToggleAutoRefresh
  \/ PollTick
  \/ \E i \in 1..Len(polls) : \E resp \in PollResponses : PollDone(i, resp)
  \/ \E i \in 1..Len(bulks) :
       \E resp \in SeriesResponses(bulks[i].range) : BulkDone(i, resp)
  \/ \E data \in SolarInputs : PushSolar(data)
  \/ \E data \in CorrInputs : PushCorrelation(data)

NextAlert ==
  \/ DashMount
  \/ \E i \in 1..Len(bulks) : \E resp \in AlertResponses : BulkDone(i, resp)
  \/ \E id \in 1..(MaxPushes + 1) : PushAlert(id)

\* the aggregate metrics under bulk fetches and metrics_update messages
NextMetrics ==
  \/ DashMount
  \/ Tick
  \/ ToggleAutoRefresh
  \/ \E i \in 1..Len(bulks) :
       \E resp \in MetricsResponses(bulks[i].range) : BulkDone(i, resp)
  \/ \E payload \in MetricsInputs : PushMetrics(payload)

\* the strength breakdown of a bulk answer
NextStrength ==
  \/ DashMount
  \/ \E i \in 1..Len(bulks) : \E resp \in StrengthResponses : BulkDone(i, resp)
  \/ Render

\* the combined chart and the scatter chart of a bulk answer
NextChart ==
  \/ DashMount
  \/ \E i \in 1..Len(bulks) : \E resp \in ChartResponses : BulkDone(i, resp)
  \/ Render

\* bulk fetches, their failures and the time-range selection
NextLoad ==
  \/ DashMount
  \/ \E r \in Ranges : SetTimeRange(r)
  \/ \E i \in 1..Len(bulks) :
       \E resp \in LoadResponses(bulks[i].range) : BulkDone(i, resp)

\* fetches that complete before or after the component is unmounted
NextTeardown ==
  \/ DashMount
  \/ DashUnmount
  \/ PollTick
  \/ \E i \in 1..Len(polls) : \E resp \in PollResponses : PollDone(i, resp)
  \/ \E i \in 1..Len(bulks) :
       \E resp \in TeardownResponses(bulks[i].range) : BulkDone(i, resp)
  \/ \E id \in AckIds : AcknowledgeStart(id)
  \/ \E i \in 1..Len(acks) : \E outcome \in AckOutcomes : AcknowledgeDone(i, outcome)

\* the poll timer next to the push client, whose socket opens or fails
NextPoll ==
  \/ Mount
  \/ TimerFire
  \/ \E s \in SocketIds : SocketOpen(s)
  \/ \E s \in SocketIds : SocketClose(s)
  \/ DashMount
  \/ ToggleAutoRefresh
  \/ PollTick

\* the push messages, well-formed or not
NextMsg ==
  \/ DashMount
  \/ \E frame \in Frames : OnMessage(frame)

\* poll completions and push messages in any order
NextInterleave ==
  \/ DashMount
  \/ PollTick
  \/ \E i \in 1..Len(polls) : \E resp \in InterleaveResponses : PollDone(i, resp)
  \/ PushSolar(PushedSolar)
  \/ PushCorrelation(PushedCorr)

\* a sample measured after the server answered the historical requests
LateSolar == Solar(Now0, 2)

\* the first load, with a push and polls arriving while it is in flight
NextLate ==
  \/ DashMount
  \/ PollTick
  \/ \E i \in 1..Len(polls) :
       \E resp \in {PollResponse(TRUE, <<LateSolar>>, <<>>),
                     PollResponse(TRUE, <<LateSolar>>, <<PushedCorr>>)} : PollDone(i, resp)
  \/ PushSolar(LateSolar)
  \/ PushCorrelation(PushedCorr)
  \/ \E i \in 1..Len(bulks) :
       \E resp \in TeardownResponses(bulks[i].range) : BulkDone(i, resp)

\* the poll timer across selections, toggles and the unmount
NextTimer ==
  \/ DashMount
  \/ DashUnmount
  \/ \E r \in Ranges : SetTimeRange(r)
  \/ \E g \in Regions : SetRegion(g)
  \/ ToggleAutoRefresh
  \/ PollTick
  \/ \E i \in 1..Len(polls) : \E resp \in InterleaveResponses : PollDone(i, resp)

\* frames from the socket to the handlers
NextFrames ==
  \/ Mount
  \/ DashMount
  \/ \E s \in SocketIds : SocketOpen(s)
  \/ \E s \in SocketIds : \E frame \in ArrivingFrames : SocketMessage(s, frame)
  \/ MessageEffect

\* exports, between selections, loads and pushes
NextExport ==
  \/ DashMount
  \/ \E r \in {"24h"} : SetTimeRange(r)
  \/ \E g \in {"EUROPE"} : SetRegion(g)
  \/ \E i \in 1..Len(bulks) : \E resp \in TeardownResponses(bulks[i].range) : BulkDone(i, resp)
  \/ PushSolar(PushedSolar)
  \/ \E format \in ExportFormats : exportData(format)

\* acknowledgements, with the few alerts they are made on
NextAck ==
  \/ DashMount
  \/ ToggleAutoRefresh
  \/ \E i \in 1..Len(bulks) : \E resp \in AckResponses : BulkDone(i, resp)
  \/ \E id \in AckIds : PushAlert(id)
  \/ \E id \in AckIds : AcknowledgeStart(id)
  \/ \E i \in 1..Len(acks) : \E outcome \in AckOutcomes : AcknowledgeDone(i, outcome)

(***************************************************************************)
(* Properties of the push client.                                          *)
(***************************************************************************)
Quiescent == timers = 0 /\ \A s \in SocketIds : sockets[s].state = "CLOSED"

\* C1: when no socket ever opens and no reconnect() or effect re-run is made,
\* the retry counter never exceeds reconnectAttempts, every automatic attempt
\* is accounted for by it (sockets after the first, plus pending timers), and
\* once nothing is pending exactly reconnectAttempts automatic attempts were
\* made and the client is Disconnected.
C1_FiveReconnects ==
  (clean /\ urlValid /\ mounted # "init") =>
     /\ reconnectCount <= reconnectAttempts
     /\ (Len(sockets) - 1) + timers = reconnectCount
     /\ Quiescent => /\ Len(sockets) - 1 = reconnectAttempts
                     /\ reconnectCount = reconnectAttempts
                     /\ ~connected

C1_Witness ==
  /\ clean /\ urlValid /\ Quiescent /\ mounted = "yes"
  /\ Len(sockets) = reconnectAttempts + 1
  /\ last.ev = "close" /\ ~last.ret

\* C2: at most one socket is connecting or open at any time.
C2_SingleSocket == Cardinality(AliveSockets) <= 1

\* C3: sendMessage returns true exactly when the connection state is
\* Connected.
C3_SendIffConnected == last.ev = "send" => (last.ret <=> connected)

\* C4: after disconnect(), as long as no explicit connect is made, no new
\* socket is created and the client stays Disconnected.
C4_StaysDisconnected ==
  [][(afterDisconnect /\ afterDisconnect') =>
        (Len(sockets') = Len(sockets) /\ ~connected')]_vars

\* C5: when a socket opens, the state is Connected, the retry counter is 0
\* (so the next failures get the full number of attempts) and onOpen ran.
C5_OpenResets ==
  last.ev = "open" =>
     /\ connected
     /\ reconnectCount = 0
     /\ ShouldReconnect(reconnectCount)
     /\ last.cb = "onOpen"

C5_Witness == last.ev = "open" /\ last.ret /\ connected /\ reconnectCount = 0

\* C6: disconnect() leaves the retry counter unchanged, an explicit connect
\* resets it to 0, and a socket made by an explicit connect that closes
\* without having opened is followed by an automatic reconnect.
C6_ExplicitConnectResets ==
  [][/\ last'.ev = "disconnect" => reconnectCount' = reconnectCount
     /\ last'.ev = "reconnect" => reconnectCount' = 0
     /\ (/\ last'.ev = "close"
         /\ \E s \in SocketIds : /\ sockets[s].origin = "explicit"
                                 /\ ~sockets[s].opened
                                 /\ sockets'[s].state = "CLOSED")
        => last'.ret]_vars

(***************************************************************************)
(* Properties of the controller's series and alert list.                   *)
(***************************************************************************)
StrictlyAscending(data) ==
  \A i, j \in 1..Len(data) : i < j => data[i].timestamp < data[j].timestamp

AppendEvents == {"push_solar", "push_corr", "poll_done"}

\* C7: after every append (push or poll) each series is sorted ascending by
\* timestamp and holds no two samples with the same timestamp.
C7_SortedNoDuplicates ==
  dlast.ev \in AppendEvents =>
     StrictlyAscending(solarData) /\ StrictlyAscending(correlationData)

Stamps(data) == {data[i].timestamp : i \in 1..Len(data)}

\* C8: a sample appended with a timestamp older than now minus the active
\* range is not in its series after the append.
C8_StaleNeverAppears ==
  /\ dlast.solar \cap Stamps(solarData) = {}
  /\ dlast.corr \cap Stamps(correlationData) = {}

WithinWindow(data) ==
  \A i \in 1..Len(data) : data[i].timestamp >= now - Horizon(timeRange)

\* C9: after every append and every range change, no series holds a sample
\* strictly older than now minus the active range.
C9_AllSeriesWithinWindow ==
  dlast.ev \in AppendEvents \cup {"set_range"} =>
     /\ WithinWindow(solarData)
     /\ WithinWindow(mentalHealthData)
     /\ WithinWindow(correlationData)

IsPushed(alert) == alert.seq > 0

PushedAlerts == SelectSeq(activeAlerts, IsPushed)

\* C10 as stated: after n pushes the list holds the most recent min(n, 20)
\* pushed alerts in arrival order, oldest first (a6 .. a25 after 25 pushes).
C10_ArrivalOrder ==
  pushCount > 0 =>
     /\ Len(activeAlerts) <= AlertCap
     /\ Len(PushedAlerts) = Min(pushCount, AlertCap)
     /\ \A i \in 1..Len(PushedAlerts) :
          activeAlerts[i].seq = pushCount - Len(PushedAlerts) + i

\* C10 amended: after n pushes the list holds at most 20 entries, the most
\* recent min(n, 20) pushed alerts are at its front, newest first (a25 .. a6
\* after 25 pushes), and older alerts were evicted first.
C10_NewestFirst ==
  pushCount > 0 =>
     /\ Len(activeAlerts) <= AlertCap
     /\ Len(PushedAlerts) = Min(pushCount, AlertCap)
     /\ \A i \in 1..Len(PushedAlerts) :
          activeAlerts[i].seq = pushCount - i + 1

C10_Witness ==
  /\ pushCount = AlertCap + 5
  /\ resends = 0
  /\ Len(activeAlerts) = AlertCap
  /\ activeAlerts[1].id = AlertCap + 5
  /\ activeAlerts[AlertCap].id = 6

(***************************************************************************)
(* Properties of the alert list under bulk fetches and acknowledgements.   *)
(***************************************************************************)
\* C11: in every state, also after a bulk fetch of /alerts/active, the alert
\* list holds at most AlertCap alerts.
C11_AlertCapAlways == Len(activeAlerts) <= AlertCap

\* C12: acknowledgeAlert marks the alert locally before the outcome of the
\* remote call is known: while a call for an id is in flight, no alert with
\* that id in the list is unacknowledged.
C12_OptimisticAcknowledge ==
  \A i \in 1..Len(acks) : acks[i] \notin Unacknowledged(activeAlerts)

\* C13: once acknowledgeAlert(id) has settled, with any outcome, no alert
\* with that id in the list is unacknowledged.
C13_AcknowledgedWhateverOutcome ==
  dlast.ev = "ack_done" => dlast.id \notin Unacknowledged(activeAlerts)

Acknowledged(list) ==
  {list[j].id : j \in {k \in 1..Len(list) : list[k].acknowledged}}

IdsOf(list) == {list[j].id : j \in 1..Len(list)}

\* C14: an id acknowledged in the list stays acknowledged in every step after
\* which it is still in the list.
C14_AcknowledgeOneWay ==
  [][\A id \in Acknowledged(activeAlerts) \cap IdsOf(activeAlerts') :
       id \in Acknowledged(activeAlerts')]_vars

(***************************************************************************)
(* Properties of the aggregate metrics.                                    *)
(***************************************************************************)
\* C15: right after the alert list changed (alert push, bulk fetch or
\* acknowledgement), metrics.active_alerts is the number of alerts held.
C15_ActiveAlertsCount ==
  dlast.ev \in {"push_alert", "bulk_done", "ack_done"} =>
     metrics.active_alerts = Len(activeAlerts)

\* C16: right after an append to a series (push or poll),
\* metrics.correlation_strength is the mean absolute correlation of the
\* correlation samples held and metrics.data_points is the number of solar
\* samples plus the number of mental-health samples held.
C16_MetricsFollowSeries ==
  dlast.ev \in AppendEvents =>
     /\ metrics.correlation_strength = avgCorrelation(correlationData)
     /\ metrics.data_points = Len(solarData) + Len(mentalHealthData)

\* C17: a recomputation over an empty (or absent) correlation series sets
\* the mean absolute correlation to exactly 0.
C17_EmptyCorrelationIsZero ==
  (dlast.ev = "bulk_done" /\ correlationData = <<>>) =>
     metrics.correlation_strength = <<0, 1>>

C17_Witness ==
  /\ dlast.ev = "bulk_done"
  /\ correlationData = <<>>
  /\ metrics.data_points > 0
  /\ metrics.correlation_strength = <<0, 1>>

StrengthBuckets ==
  <<[lo |-> 70, hi |-> 100], [lo |-> 50, hi |-> 70], [lo |-> 30, hi |-> 50],
    [lo |-> 10, hi |-> 30], [lo |-> -1, hi |-> 10]>>

InBucket(k) ==
  {j \in 1..Len(correlationData) :
     /\ Abs(correlationData[j].correlation) > StrengthBuckets[k].lo
     /\ Abs(correlationData[j].correlation) <= StrengthBuckets[k].hi}

ValueOf(rows, name) ==
  LET named(row) == row.name = name
      hits == SelectSeq(rows, named)
  IN IF hits = <<>> THEN 0 ELSE hits[1].value

RECURSIVE SumValues(_)
SumValues(rows) ==
  IF rows = <<>> THEN 0 ELSE Head(rows).value + SumValues(Tail(rows))

\* C19: the strength breakdown of a render counts each correlation sample
\* in exactly one bucket of |r|: (0.7, 1], (0.5, 0.7], (0.3, 0.5],
\* (0.1, 0.3], [0, 0.1]; the counts add up to the number of samples and a
\* bucket with count 0 is left out.
C19_StrengthBuckets ==
  dlast.ev = "render" =>
     /\ \A j \in 1..Len(correlationData) :
          Cardinality({k \in 1..Len(StrengthBuckets) : j \in InBucket(k)}) = 1
     /\ \A k \in 1..Len(StrengthBuckets) :
          ValueOf(view.strength, CategoryNames[k]) = Cardinality(InBucket(k))
     /\ \A n \in 1..Len(view.strength) : view.strength[n].value > 0
     /\ SumValues(view.strength) = Len(correlationData)

C19_Witness ==
  /\ dlast.ev = "render"
  /\ correlationData = <<Corr(Now0, 80), Corr(Now0, 40), Corr(Now0, 20)>>
  /\ view.strength = <<[name |-> CategoryNames[1], value |-> 1],
                       [name |-> CategoryNames[3], value |-> 1],
                       [name |-> CategoryNames[4], value |-> 1]>>

\* C20 as stated: every combined row and every scatter point pairs a solar
\* sample with the mental-health sample of the same index, and there is
\* none for an index that the shorter series does not have.
C20_PairedTruncated ==
  dlast.ev = "render" =>
     LET shorter == Min(Len(solarData), Len(mentalHealthData))
     IN /\ \A k \in 1..Len(view.combined) : \E i \in 1..shorter :
             /\ view.combined[k].kp_index = solarData[i].kp_index
             /\ view.combined[k].depression_index =
                  mentalHealthData[i].depression_index
        /\ \A k \in 1..Len(view.scatter) : \E i \in 1..shorter :
             /\ view.scatter[k].x = solarData[i].kp_index
             /\ view.scatter[k].y = mentalHealthData[i].depression_index

\* C20: there is a combined row for each of the last ChartRows solar samples
\* and a scatter point for each of the last ScatterPoints solar samples.  The
\* row of solar index i carries the mental-health value of index i; the
\* k-th scatter point carries the mental-health value of index k; the value
\* is 0 where the mental-health series has no such index.
C20_PairedZeroFilled ==
  dlast.ev = "render" =>
     /\ Len(view.combined) = Min(Len(solarData), ChartRows)
     /\ \A k \in 1..Len(view.combined) :
          LET i == Len(solarData) - Len(view.combined) + k
          IN /\ view.combined[k].kp_index = solarData[i].kp_index
             /\ view.combined[k].depression_index =
                  IF i <= Len(mentalHealthData)
                    THEN mentalHealthData[i].depression_index ELSE 0
     /\ Len(view.scatter) = Min(Len(solarData), ScatterPoints)
     /\ \A k \in 1..Len(view.scatter) :
          LET i == Len(solarData) - Len(view.scatter) + k
          IN /\ view.scatter[k].x = solarData[i].kp_index
             /\ view.scatter[k].y =
                  IF k <= Len(mentalHealthData)
                    THEN mentalHealthData[k].depression_index ELSE 0

C20_Witness ==
  /\ dlast.ev = "render"
  /\ Len(solarData) = ScatterPoints + 1
  /\ Len(mentalHealthData) = 1
  /\ Len(view.combined) = ChartRows
  /\ view.combined[ChartRows].depression_index = 0
  /\ view.scatter[1].x = solarData[2].kp_index
  /\ view.scatter[1].y = mentalHealthData[1].depression_index

(***************************************************************************)
(* Properties of the bulk fetch.                                           *)
(***************************************************************************)
BulkEvents == {"bulk_done", "bulk_failed"}

\* C21: after a bulk fetch completed, every request of it that succeeded has
\* populated its series or the alert list, and the metrics were recomputed
\* from what was answered.
C21_FailureIsolated ==
  dlast.ev \in BulkEvents =>
     /\ "solar" \notin dlast.resp.failed => solarData = dlast.resp.solar
     /\ "mental" \notin dlast.resp.failed => mentalHealthData = dlast.resp.mental
     /\ "correlation" \notin dlast.resp.failed => correlationData = dlast.resp.corr
     /\ "alerts" \notin dlast.resp.failed => activeAlerts = dlast.resp.alerts
     /\ dlast.resp.failed # Requests =>
          metrics.data_points = Len(solarData) + Len(mentalHealthData)

\* C22: whenever the controller is loading it is eventually ready, whether
\* the requests of its bulk fetches succeeded or failed.
C22_LoadingLeadsToReady == isLoading ~> ~isLoading

C22_Witness ==
  /\ dlast.ev = "bulk_failed"
  /\ dlast.resp.failed # Requests
  /\ bulks = <<>>
  /\ ~isLoading

\* C23: once no fetch is outstanding, the series that a bulk fetch stored
\* were fetched for the time range that is selected now.
C23_CurrentScopeOnly ==
  (dlast.ev = "bulk_done" /\ bulks = <<>> /\ polls = <<>>) =>
     dlast.range = timeRange

C25_PollIffAutoRefresh ==
  [][(dlast'.ev = "poll_tick" /\ inputs' = inputs + 1) =>
       IF autoRefresh THEN Len(polls') = Len(polls) + 1 ELSE polls' = polls]_vars

C25_Witness ==
  /\ dlast.ev = "poll_tick"
  /\ polls # <<>>
  /\ mounted = "yes"
  /\ ~connected
  /\ reconnectCount = reconnectAttempts
  /\ Quiescent

Malformed(frame) == ~frame.json \/ frame.type \notin MessageKinds

\* C26: a frame that is not valid JSON, or whose type is none of the four
\* kinds, changes no series, not the alert list and not the metrics.
C26_MalformedDiscarded ==
  [][\A frame \in Frames :
       (Malformed(frame) /\ OnMessage(frame)) =>
          UNCHANGED <<solarData, mentalHealthData, correlationData,
                      activeAlerts, metrics>>]_vars

\* a well-formed alert frame took effect after the only other message, which
\* left the series and the metrics as they were
C26_Witness ==
  /\ dlast.ev = "push_alert"
  /\ inputs = 1
  /\ Len(activeAlerts) = 1
  /\ solarData = <<>> /\ correlationData = <<>>
  /\ metrics.data_points = 0 /\ metrics.prediction_accuracy = 0

\* the controller state apart from the four targets of the messages
OtherState ==
  <<dashMounted, timeRange, autoRefresh, mentalHealthData, isLoading,
    pollTimer, bulks, polls, acks>>

\* C27: a well-formed message of one of the four kinds leaves unchanged
\* everything but its target: the solar series for solar_update, the
\* correlation series for correlation_update, the alert list for alert, the
\* metrics for metrics_update.
C27_OnlyOwnTarget ==
  [][\A frame \in Frames :
       (~Malformed(frame) /\ OnMessage(frame)) =>
          /\ UNCHANGED OtherState
          /\ frame.type # "solar_update" => UNCHANGED solarData
          /\ frame.type # "correlation_update" => UNCHANGED correlationData
          /\ frame.type # "alert" => UNCHANGED activeAlerts
          /\ frame.type # "metrics_update" => UNCHANGED metrics]_vars

C27_Witness ==
  /\ dlast.ev = "push_corr"
  /\ inputs = 3
  /\ solarData # <<>> /\ correlationData # <<>> /\ activeAlerts # <<>>
  /\ metrics.prediction_accuracy = 90

\* C28: after a metrics_update message the metrics are its payload, in
\* every field.
C28_MetricsReplaced ==
  [][\A frame \in Frames :
       (~Malformed(frame) /\ frame.type = "metrics_update" /\ OnMessage(frame)) =>
          metrics' = frame.payload]_vars

\* a metrics_update replaced the metrics of an earlier metrics_update
C28_Witness ==
  /\ dlast.ev = "push_metrics"
  /\ dlast.id = 90
  /\ metrics \in MetricsInputs
  /\ metrics.prediction_accuracy = 80

\* C29: once no poll is outstanding, a series that received one sample by
\* poll and one by push holds the two in one and the same order (that of
\* their timestamps), whichever handler ran first.
C29_InterleavingIndependent ==
  polls = <<>> =>
     /\ (Len(solarData) = 2 /\ Stamps(solarData) = {Now0 - 3, Now0}) =>
          solarData = <<PolledSolar, PushedSolar>>
     /\ (Len(correlationData) = 2 /\ Stamps(correlationData) = {Now0 - 3, Now0}) =>
          correlationData = <<PolledCorr, PushedCorr>>

\* the run in which the poll completes before the push
C29_PollFirst ==
  polls = <<>> /\ solarData = <<PolledSolar, PushedSolar>>

\* C30: the alert list never holds two alerts with the same id.
C30_UniqueAlertIds == Cardinality(HeldIds) = Len(activeAlerts)

\* C31: exporting, as JSON or as CSV, issues no fetch and leaves every
\* series, the alert list, the metrics, the time range, the region and the
\* auto-refresh flag as they were.
C31_ExportChangesNothing ==
  [][\A format \in ExportFormats :
       exportData(format) =>
         UNCHANGED <<solarData, mentalHealthData, correlationData, activeAlerts,
                     metrics, timeRange, selectedRegion, autoRefresh, bulks,
                     polls, acks, isLoading>>]_vars

\* both formats exported from a loaded controller that holds samples and alerts
C31_Witness ==
  /\ Len(download) = 2
  /\ download[1].format = "json" /\ download[2].format = "csv"
  /\ Len(download[2].content) > 1
  /\ download[1].content.alerts # <<>>
  /\ solarData # <<>> /\ activeAlerts # <<>>
  /\ selectedRegion = "EUROPE"

\* C32: every frame received on the push socket is dispatched to the
\* controller's message handler exactly once: when the dispatching effect has
\* run for the latest frame, as many frames were dispatched as were received,
\* also when two frames arrived back to back.  (In this specification
\* every dispatch is counted in inputs, every frame received in
\* lastMessage.seq.)
C32_EveryFrameDispatched ==
  (dashMounted /\ processed = lastMessage.seq) => inputs = lastMessage.seq

\* C33: in every reachable state of the push client, connected is true
\* exactly when the socket the client references, the one sendMessage would
\* use, is open; the close of an older socket never clears the flag while
\* the current socket is open.
C33_ConnectedIffCurrentOpen == connected <=> CanSend

\* the same while no reconnect() call and no effect re-run has been made
C33_WithoutExplicitConnect == explicitCalls = 0 => (connected <=> CanSend)

\* C34: a sample appended by a push message or a poll while a bulk fetch
\* is in flight is still in its series after that bulk fetch completes,
\* the sample being inside the time window and the scope unchanged.  (In
\* this specification the only bulk fetch is the one of the mount, the
\* series are empty when it starts, the range stays 7d and every sample
\* is of the last three days.)
C34_LateSamplesKept ==
  [][(dlast'.ev = "bulk_done" /\ Len(bulks') < Len(bulks)) =>
       /\ \A i \in 1..Len(solarData) :
            \E j \in 1..Len(solarData') : solarData'[j] = solarData[i]
       /\ \A i \in 1..Len(correlationData) :
            \E j \in 1..Len(correlationData') :
              correlationData'[j] = correlationData[i]]_vars

\* C35: toggling auto-refresh changes only the auto-refresh flag and the
\* polling: it issues no bulk fetch, does not re-enter Loading, and leaves
\* the series, the alert list and the metrics unchanged.
C35_ToggleOnlyPolling ==
  [][ToggleAutoRefresh =>
       /\ bulks' = bulks
       /\ isLoading' = isLoading
       /\ UNCHANGED <<solarData, mentalHealthData, correlationData,
                      activeAlerts, metrics>>]_vars

\* C36: at most one poll timer is active at any time, across any sequence
\* of range changes, region changes and auto-refresh toggles; after the
\* teardown no poll timer is active and no poll fetch is issued.
C36_SinglePollTimer ==
  /\ [](Len(pollTimer) <= 1 /\ (tornDown => pollTimer = <<>>))
  /\ [][tornDown => Len(polls') <= Len(polls)]_vars

\* a timer is active after a range change, a region change and a toggle
C36_Witness ==
  /\ Len(pollTimer) = 1
  /\ timeRange # "7d" /\ selectedRegion # "GLOBAL" /\ ~autoRefresh
  /\ pollTimer[1] = [range |-> timeRange, auto |-> FALSE]

\* the controller was torn down after selections, with a poll in flight
C36_TornDown == tornDown /\ inputs = MaxInputs /\ polls # <<>>

\* the tick numbers of the rows, in the order of the rows
RowTimes == [i \in 1..Len(timeSeriesData) |-> timeSeriesData[i].time]

\* C37: after any number of timer ticks timeSeriesData holds at most 30
\* rows; when a tick would exceed 30 the oldest row is removed, and the
\* rows that remain keep their insertion order: the rows are those of the
\* latest ticks, one per tick, oldest first.
C37_SlidingWindow ==
  /\ Len(timeSeriesData) <= SeriesCap
  /\ Len(timeSeriesData) = Min(ticks, SeriesCap)
  /\ \A i \in 1..Len(timeSeriesData) :
       RowTimes[i] = ticks - Len(timeSeriesData) + i

\* the interval ran more than 30 times: rows were removed
C37_Witness ==
  /\ ticks > SeriesCap + 1
  /\ Len(timeSeriesData) = SeriesCap
  /\ RowTimes[1] = ticks - SeriesCap + 1

\* C38: the row appended to timeSeriesData at a timer tick carries the
\* values that solarMetrics, socialMetrics and correlationData have at
\* that tick, not the values they had at mount.
C38_RowOfCurrentValues ==
  [][SimTick =>
       timeSeriesData'[Len(timeSeriesData')] =
         Row(ticks + 1, solarMetrics, socialMetrics, simCorrelationData)]_vars

Init == InitWS /\ InitDash /\ InitSim

SpecWS == Init /\ [][NextWS]_vars

\* the controller specifications leave the push client unmounted
InitController == Init /\ urlValid = TRUE

SpecBuf == InitController /\ [][NextBuf]_vars

SpecAlert == InitController /\ [][NextAlert]_vars

SpecMetrics == InitController /\ [][NextMetrics]_vars

SpecStrength == InitController /\ [][NextStrength]_vars

SpecChart == InitController /\ [][NextChart]_vars

SpecLoad == InitController /\ [][NextLoad]_vars

\* the effect runs after the first render and every request settles
SpecLoadFair ==
  /\ SpecLoad
  /\ WF_vars(DashMount)
  /\ WF_vars(\E i \in 1..Len(bulks) :
               \E resp \in LoadResponses(bulks[i].range) : BulkDone(i, resp))

SpecTeardown == InitController /\ [][NextTeardown]_vars

SpecPoll == InitController /\ [][NextPoll]_vars

SpecMsg == InitController /\ [][NextMsg]_vars

SpecInterleave == InitController /\ [][NextInterleave]_vars

SpecLate == InitController /\ [][NextLate]_vars

SpecTimer == InitController /\ [][NextTimer]_vars

SpecFrames == InitController /\ [][NextFrames]_vars

SpecExport == InitController /\ [][NextExport]_vars

SpecSim == InitController /\ [][NextSim]_vars

SpecAck == InitController /\ [][NextAck]_vars

====
